---- MODULE Spec2Model ----
(***************************************************************************)
(* Model of the admin blueprint of src/admin_routes.py: the session gate,  *)
(* the user/tier endpoints, the subscription-request approval workflow,    *)
(* the dashboard's pending-request listing, and the watchlist and          *)
(* screening endpoints.                                                    *)
(*                                                                         *)
(* The ORM classes (User, SubscriptionRequest, Watchlist, StockScreening)  *)
(* live in models.py, which is not among the sources; the few methods the  *)
(* handlers call on them are modelled from the specification's data model  *)
(* and operation descriptions and are marked so in the model map.          *)
(***************************************************************************)
EXTENDS Integers, FiniteSets, Sequences, TLC

\* ------------------------------------------------------------------ bounds
\* Regular users are 1..NumUsers; user 0 is the one admin account.  Request r
\* was made by user r % (NumUsers + 1), so requests of regular users and of
\* the admin (who cannot be deleted) both occur.
NumUsers == 1
\* Subscription requests are 1..NumRequests; id 0 names no request.
NumRequests == 2
\* Request-handling threads that may run approve/reject concurrently.
NumWorkers == 2

Users == 0..NumUsers
UserIds == 0..(NumUsers + 1)          \* NumUsers + 1 is an id no user ever had
\* The users the tier endpoints are called for: every regular user and the
\* unknown id (the admin's own tier is left alone).
TierTargets == 1..(NumUsers + 1)
ReqIds == 1..NumRequests
RequestIds == 0..NumRequests          \* ids a caller may put in the URL
Workers == 1..NumWorkers

\* ------------------------------------------------------- program constants
ValidTiers == {"free", "medium", "pro"}
\* What a JSON payload's 'tier' may hold: a valid tier, some other string, or
\* nothing at all (the key is missing).
PayloadTiers == ValidTiers \cup {"gold", "missing"}
Symbols == {"AAPL"}
WatchlistIds == {"wl1", "wl0"}        \* "wl0" names no watchlist
ScreeningIds == {"s1", "s0"}          \* "s0" names no screening
MockResults == {"mockA", "mockB"}
Quotes == {"q1", "q2"}
Passwords == {"missing", "wrong", "right"}

VARIABLES
    userTier,     \* userTier[u]: subscription_tier of user u, "absent" once deleted
    requests,     \* requests[r]: the SubscriptionRequest row r
    session,      \* {} (anonymous) or {u}: the user flask_login's cookie names
    pc,           \* pc[w]: where worker w is inside approve/reject
    resp,         \* the response of the handler that returned last
    watchlists,   \* watchlists[id]: owner and stocks (symbol -> quote) of the rows that exist
    screenings    \* screenings[id]: results of the screenings that exist

vars == <<userTier, requests, session, pc, resp, watchlists, screenings>>
store == <<userTier, requests, watchlists, screenings>>

\* ---------------------------------------------------------------- responses
Json(code, body) == [code |-> code, body |-> body, data |-> <<>>]
NoResponse == Json(0, "none")
LoginRedirect == Json(302, "admin.admin_login")
\* An exception that leaves the view function: Flask answers it, not the handler.
Unhandled == Json(500, "unhandled exception")
RequestNotFound == Json(404, "Request not found")
AlreadyProcessed == Json(400, "Request already processed")
UserNotFound == Json(404, "User not found")
Proceed == Json(0, "proceed")

Idle == [op |-> "idle", id |-> 0]

\* ------------------------------------------------------------ collaborators
is_admin(u) == u = 0
User_get(u) == IF u \in Users /\ userTier[u] # "absent" THEN {u} ELSE {}
email(u) == ToString(u)

\* (as it would be with the is_admin test left out)
admin_required_any_user ==
    \E u \in session : User_get(u) # {}
\* The decorator lets the view run: current_user.is_authenticated and
\* current_user.is_admin.
admin_required ==
    \E u \in session : User_get(u) # {} /\ is_admin(u)

Redirected == resp' = LoginRedirect /\ UNCHANGED <<store, session, pc>>

\* SubscriptionRequest.approve(): status and tier are committed together.
SubscriptionRequest_approve(r) ==
    LET u == requests[r].user_id IN
    /\ requests' = [requests EXCEPT ![r].status = "approved"]
    /\ userTier' = IF User_get(u) # {}
                   THEN [userTier EXCEPT ![u] = requests[r].requested_tier]
                   ELSE userTier

\* SubscriptionRequest.reject()
SubscriptionRequest_reject(r) ==
    /\ requests' = [requests EXCEPT ![r].status = "rejected"]
    /\ userTier' = userTier

\* ------------------------------------------------------- approve and reject
\* The lookup and the two early returns both handlers start with.
\* (without the status check)
precheck_without_status_check(r) ==
    IF r \notin DOMAIN requests THEN RequestNotFound ELSE Proceed
\* (refusing approved requests only)
precheck_only_approved(r) ==
    IF r \notin DOMAIN requests THEN RequestNotFound
    ELSE IF requests[r].status = "approved" THEN AlreadyProcessed
    ELSE Proceed
\* (without the lookup's None check: request.status raises on None)
precheck_without_none_check(r) ==
    IF r \notin DOMAIN requests THEN Unhandled
    ELSE IF requests[r].status # "pending" THEN AlreadyProcessed
    ELSE Proceed
precheck(r) ==
    IF r \notin DOMAIN requests THEN RequestNotFound
    ELSE IF requests[r].status # "pending" THEN AlreadyProcessed
    ELSE Proceed

\* (approve calling request.reject())
approve_write_calls_reject(r, ok) ==
    IF ~ok
    THEN resp' = Unhandled /\ UNCHANGED <<requests, userTier>>
    ELSE /\ SubscriptionRequest_reject(r)
         /\ resp' = IF User_get(requests[r].user_id) = {}
                    THEN Unhandled
                    ELSE Json(200, "Approved")

\* (reject calling request.approve())
reject_write_calls_approve(r, ok) ==
    IF ~ok
    THEN resp' = Unhandled /\ UNCHANGED <<requests, userTier>>
    ELSE /\ SubscriptionRequest_approve(r)
         /\ resp' = IF User_get(requests[r].user_id) = {}
                    THEN Unhandled
                    ELSE Json(200, "Rejected")

\* request.approve(); user = User.get(...); the success response.  ok = FALSE:
\* the store raises inside request.approve() and nothing is committed.
approve_write(r, ok) ==
    IF ~ok
    THEN resp' = Unhandled /\ UNCHANGED <<requests, userTier>>
    ELSE /\ SubscriptionRequest_approve(r)
         /\ resp' = IF User_get(requests[r].user_id) = {}
                    THEN Unhandled
                    ELSE Json(200, "Approved")

reject_write(r, ok) ==
    IF ~ok
    THEN resp' = Unhandled /\ UNCHANGED <<requests, userTier>>
    ELSE /\ SubscriptionRequest_reject(r)
         /\ resp' = IF User_get(requests[r].user_id) = {}
                    THEN Unhandled
                    ELSE Json(200, "Rejected")

approve_subscription_request(r, ok) ==
    /\ \A w \in Workers : pc[w] = Idle
    /\ IF ~admin_required THEN Redirected
       ELSE /\ IF precheck(r) # Proceed
               THEN resp' = precheck(r) /\ UNCHANGED <<requests, userTier>>
               ELSE approve_write(r, ok)
            /\ UNCHANGED <<session, pc, watchlists, screenings>>

reject_subscription_request(r, ok) ==
    /\ \A w \in Workers : pc[w] = Idle
    /\ IF ~admin_required THEN Redirected
       ELSE /\ IF precheck(r) # Proceed
               THEN resp' = precheck(r) /\ UNCHANGED <<requests, userTier>>
               ELSE reject_write(r, ok)
            /\ UNCHANGED <<session, pc, watchlists, screenings>>

\* -------------------------------------------------------------------- login
\* The JSON POST of the single-page front end.
\* password: "missing" (no email or password sent), "wrong" or "right".
admin_login(u, password) ==
    /\ \A w \in Workers : pc[w] = Idle
    /\ IF password = "missing"
       THEN session' = session /\ resp' = Json(400, "Please enter email and password.")
       ELSE IF User_get(u) # {} /\ is_admin(u) /\ password = "right"
       THEN session' = {u} /\ resp' = Json(200, "Admin login successful")
       ELSE session' = session /\ resp' = Json(401, "Invalid admin credentials.")
    /\ UNCHANGED <<store, pc>>

logout ==
    /\ \A w \in Workers : pc[w] = Idle
    /\ IF ~admin_required THEN Redirected
       ELSE /\ session' = {}
            /\ resp' = LoginRedirect
            /\ UNCHANGED <<store, pc>>

\* ------------------------------------------------------------ user endpoints
User_update_subscription(u, tier) == userTier' = [userTier EXCEPT ![u] = tier]

update_user_subscription(u, tier) ==
    /\ \A w \in Workers : pc[w] = Idle
    /\ IF ~admin_required THEN Redirected
       ELSE /\ IF tier \notin ValidTiers
               THEN resp' = Json(400, "Invalid data") /\ userTier' = userTier
               ELSE IF User_get(u) = {}
               THEN resp' = UserNotFound /\ userTier' = userTier
               ELSE User_update_subscription(u, tier) /\ resp' = Json(200, "Updated")
            /\ UNCHANGED <<requests, session, pc, watchlists, screenings>>

\* ok = FALSE: db.session.commit() raises; the handler rolls back.
delete_user(u, ok) ==
    /\ \A w \in Workers : pc[w] = Idle
    /\ IF ~admin_required THEN Redirected
       ELSE /\ IF User_get(u) = {}
               THEN resp' = UserNotFound /\ UNCHANGED <<userTier, watchlists>>
               ELSE IF is_admin(u)
               THEN /\ resp' = Json(403, "Cannot delete admin users")
                    /\ UNCHANGED <<userTier, watchlists>>
               ELSE IF ~ok
               THEN resp' = Json(500, "str(e)") /\ UNCHANGED <<userTier, watchlists>>
               ELSE /\ userTier' = [userTier EXCEPT ![u] = "absent"]
                    /\ watchlists' = [w \in {x \in DOMAIN watchlists :
                                               watchlists[x].user_id # u}
                                        |-> watchlists[w]]
                    /\ resp' = Json(200, "Deleted")
            /\ UNCHANGED <<requests, session, pc, screenings>>

add_user_subscription(u, tier) ==
    /\ \A w \in Workers : pc[w] = Idle
    /\ IF ~admin_required THEN Redirected
       ELSE /\ LET subscription_tier == IF tier = "missing" THEN "medium" ELSE tier
               IN IF User_get(u) = {}
                  THEN resp' = UserNotFound /\ userTier' = userTier
                  ELSE /\ User_update_subscription(u, subscription_tier)
                       /\ resp' = Json(200, "Added")
            /\ UNCHANGED <<requests, session, pc, watchlists, screenings>>

remove_user_subscription(u) ==
    /\ \A w \in Workers : pc[w] = Idle
    /\ IF ~admin_required THEN Redirected
       ELSE /\ IF User_get(u) = {}
               THEN resp' = UserNotFound /\ userTier' = userTier
               ELSE /\ User_update_subscription(u, "free")
                    /\ resp' = Json(200, "Removed")
            /\ UNCHANGED <<requests, session, pc, watchlists, screenings>>

\* ---------------------------------------------------------------- dashboard
\* SubscriptionRequest.get_pending(): the pending rows, oldest (lowest id) first.
SubscriptionRequest_get_pending ==
    SelectSeq([i \in 1..NumRequests |-> i],
              LAMBDA r : requests[r].status = "pending")

\* One entry of requests_data.
request_entry(r) ==
    LET user == User_get(requests[r].user_id) IN
    [id |-> r,
     user_email |-> IF user # {} THEN email(requests[r].user_id) ELSE "Unknown",
     user_name |-> IF user # {} THEN email(requests[r].user_id) ELSE "Unknown",
     current_tier |-> requests[r].current_tier,
     requested_tier |-> requests[r].requested_tier,
     status |-> requests[r].status]

requests_data ==
    LET pending_requests == SubscriptionRequest_get_pending IN
    [i \in 1..Len(pending_requests) |-> request_entry(pending_requests[i])]

\* (user.email read without the 'if user' fallback)
dashboard_without_fallback ==
    /\ \A w \in Workers : pc[w] = Idle
    /\ IF ~admin_required THEN Redirected
       ELSE /\ resp' = IF \E r \in ReqIds : /\ requests[r].status = "pending"
                                            /\ User_get(requests[r].user_id) = {}
                       THEN Unhandled
                       ELSE [code |-> 200, body |-> "dashboard", data |-> requests_data]
            /\ UNCHANGED <<store, session, pc>>

dashboard ==
    /\ \A w \in Workers : pc[w] = Idle
    /\ IF ~admin_required THEN Redirected
       ELSE /\ resp' = [code |-> 200, body |-> "dashboard", data |-> requests_data]
            /\ UNCHANGED <<store, session, pc>>

\* ------------------------------------------- approve and reject, step by step
\* The same two handlers with the thread's position kept in pc: the lookup and
\* the checks are one step, request.approve()/reject() and the response the next,
\* and another thread may run in between.
approve_begin(w, r) ==
    /\ pc[w] = Idle
    /\ IF ~admin_required THEN Redirected
       ELSE /\ IF precheck(r) # Proceed
               THEN resp' = precheck(r) /\ pc' = pc
               ELSE resp' = resp /\ pc' = [pc EXCEPT ![w] = [op |-> "approve", id |-> r]]
            /\ UNCHANGED <<store, session>>

approve_finish(w, ok) ==
    /\ pc[w].op = "approve"
    /\ approve_write(pc[w].id, ok)
    /\ pc' = [pc EXCEPT ![w] = Idle]
    /\ UNCHANGED <<session, watchlists, screenings>>

reject_begin(w, r) ==
    /\ pc[w] = Idle
    /\ IF ~admin_required THEN Redirected
       ELSE /\ IF precheck(r) # Proceed
               THEN resp' = precheck(r) /\ pc' = pc
               ELSE resp' = resp /\ pc' = [pc EXCEPT ![w] = [op |-> "reject", id |-> r]]
            /\ UNCHANGED <<store, session>>

reject_finish(w, ok) ==
    /\ pc[w].op = "reject"
    /\ reject_write(pc[w].id, ok)
    /\ pc' = [pc EXCEPT ![w] = Idle]
    /\ UNCHANGED <<session, watchlists, screenings>>

\* -------------------------------------------------------- watchlist endpoints
upper(symbol) == IF symbol = "aapl" THEN "AAPL" ELSE symbol

\* fresh[s]: what MarketDataService.get_stock_data(s) answers, "none" if nothing.
\* ok = FALSE: the service or the first save raises and the handler answers 500.
update_stocks(fresh, ok) ==
    /\ \A w \in Workers : pc[w] = Idle
    /\ IF ~admin_required THEN Redirected
       ELSE /\ IF ~ok
               THEN resp' = Json(500, "str(e)") /\ watchlists' = watchlists
               ELSE /\ watchlists' =
                         [w \in DOMAIN watchlists |->
                            [watchlists[w] EXCEPT !.stocks =
                               [s \in DOMAIN watchlists[w].stocks |->
                                  IF fresh[s] # "none" THEN fresh[s]
                                  ELSE watchlists[w].stocks[s]]]]
                    /\ resp' = Json(200, "Updated stocks")
            /\ UNCHANGED <<userTier, requests, screenings, session, pc>>

get_user_watchlists(u) ==
    /\ \A w \in Workers : pc[w] = Idle
    /\ IF ~admin_required THEN Redirected
       ELSE /\ resp' = IF User_get(u) = {} THEN UserNotFound ELSE Json(200, "watchlists")
            /\ UNCHANGED <<store, session, pc>>

\* symbol: the payload's 'symbol' ("" when missing); stock_data: the service's answer.
add_stock_to_watchlist(wl, symbol, stock_data) ==
    /\ \A w \in Workers : pc[w] = Idle
    /\ IF ~admin_required THEN Redirected
       ELSE /\ IF symbol = ""
               THEN resp' = Json(400, "Stock symbol is required") /\ watchlists' = watchlists
               ELSE IF wl \notin DOMAIN watchlists
               THEN resp' = Json(404, "Watchlist not found") /\ watchlists' = watchlists
               ELSE IF stock_data = "none"
               THEN resp' = Json(400, "Could not find data") /\ watchlists' = watchlists
               ELSE IF upper(symbol) \in DOMAIN watchlists[wl].stocks
               THEN resp' = Json(400, "already exists in this watchlist")
                    /\ watchlists' = watchlists
               ELSE /\ watchlists' =
                         [watchlists EXCEPT ![wl].stocks =
                            [s \in DOMAIN watchlists[wl].stocks \cup {upper(symbol)} |->
                               IF s = upper(symbol) THEN stock_data
                               ELSE watchlists[wl].stocks[s]]]
                    /\ resp' = Json(200, "Added stock")
            /\ UNCHANGED <<userTier, requests, screenings, session, pc>>

remove_stock_from_watchlist(wl, symbol) ==
    /\ \A w \in Workers : pc[w] = Idle
    /\ IF ~admin_required THEN Redirected
       ELSE /\ IF symbol = ""
               THEN resp' = Json(400, "Stock symbol is required") /\ watchlists' = watchlists
               ELSE IF wl \notin DOMAIN watchlists
               THEN resp' = Json(404, "Watchlist not found") /\ watchlists' = watchlists
               ELSE /\ watchlists' =
                         [watchlists EXCEPT ![wl].stocks =
                            [s \in DOMAIN watchlists[wl].stocks \ {upper(symbol)} |->
                               watchlists[wl].stocks[s]]]
                    /\ resp' = Json(200, "Removed stock")
            /\ UNCHANGED <<userTier, requests, screenings, session, pc>>

\* -------------------------------------------------------- screening endpoints
\* name_given: the payload has a 'name'; results: what the mock generator drew.
create_screening(name_given, results, ok) ==
    /\ \A w \in Workers : pc[w] = Idle
    /\ \/ ~admin_required
       \/ \E s \in ScreeningIds \ {"s0"} : s \notin DOMAIN screenings
    /\ IF ~admin_required THEN Redirected
       ELSE /\ IF ~name_given
               THEN resp' = Json(400, "Screening name is required")
                    /\ screenings' = screenings
               ELSE IF ~ok
               THEN resp' = Json(500, "str(e)") /\ screenings' = screenings
               ELSE LET id == CHOOSE s \in ScreeningIds \ {"s0"} : s \notin DOMAIN screenings
                    IN /\ screenings' = [s \in DOMAIN screenings \cup {id} |->
                                           IF s = id THEN results ELSE screenings[s]]
                       /\ resp' = Json(200, "screening_id")
            /\ UNCHANGED <<userTier, requests, watchlists, session, pc>>

update_screening(id, results, ok) ==
    /\ \A w \in Workers : pc[w] = Idle
    /\ IF ~admin_required THEN Redirected
       ELSE /\ IF id \notin DOMAIN screenings
               THEN resp' = Json(404, "Screening not found") /\ screenings' = screenings
               ELSE IF ~ok
               THEN resp' = Json(500, "str(e)") /\ screenings' = screenings
               ELSE /\ screenings' = [screenings EXCEPT ![id] = results]
                    /\ resp' = Json(200, "results")
            /\ UNCHANGED <<userTier, requests, watchlists, session, pc>>

delete_screening(id, ok) ==
    /\ \A w \in Workers : pc[w] = Idle
    /\ IF ~admin_required THEN Redirected
       ELSE /\ IF id \notin DOMAIN screenings
               THEN resp' = Json(404, "Screening not found") /\ screenings' = screenings
               ELSE IF ~ok
               THEN resp' = Json(500, "str(e)") /\ screenings' = screenings
               ELSE /\ screenings' = [s \in DOMAIN screenings \ {id} |-> screenings[s]]
                    /\ resp' = Json(200, "Deleted screening")
            /\ UNCHANGED <<userTier, requests, watchlists, session, pc>>

\* The read-only pages and API endpoints: users, stock_screening,
\* api_dashboard_data, api_users, api_stock_screenings.
read_only_page(name) ==
    /\ \A w \in Workers : pc[w] = Idle
    /\ IF ~admin_required THEN Redirected
       ELSE /\ resp' = Json(200, name)
            /\ UNCHANGED <<store, session, pc>>

ReadOnlyPages ==
    {"users", "stock_screening", "api_dashboard_data", "api_users",
     "api_stock_screenings"}

\* ------------------------------------------------------------ initial state
Init ==
    /\ userTier = [u \in Users |-> "free"]
    /\ requests = [r \in ReqIds |->
                     [user_id |-> r % (NumUsers + 1),
                      current_tier |-> "free",
                      requested_tier |-> IF r % 2 = 1 THEN "pro" ELSE "medium",
                      status |-> "pending"]]
    /\ session \in {{}, {1}}
    /\ pc = [w \in Workers |-> Idle]
    /\ resp = NoResponse
    /\ watchlists = [w \in {"wl1"} |-> [user_id |-> 1, stocks |-> <<>>]]
    /\ screenings = <<>>

Next ==
    \/ \E u \in UserIds, p \in Passwords : admin_login(u, p)
    \/ logout
    \/ \E u \in TierTargets, t \in PayloadTiers : update_user_subscription(u, t)
    \/ \E u \in UserIds, ok \in BOOLEAN : delete_user(u, ok)
    \/ \E u \in TierTargets, t \in PayloadTiers : add_user_subscription(u, t)
    \/ \E u \in TierTargets : remove_user_subscription(u)
    \/ dashboard
    \/ \E r \in RequestIds, ok \in BOOLEAN : approve_subscription_request(r, ok)
    \/ \E r \in RequestIds, ok \in BOOLEAN : reject_subscription_request(r, ok)

\* The subscription workflow and the user endpoints, one call at a time.
Spec == Init /\ [][Next]_vars

\* approve and reject running on concurrent threads.
NextConc ==
    \/ \E u \in UserIds, p \in Passwords : admin_login(u, p)
    \/ \E u \in UserIds, ok \in BOOLEAN : delete_user(u, ok)
    \/ \E w \in Workers, r \in RequestIds : approve_begin(w, r)
    \/ \E w \in Workers, ok \in BOOLEAN : approve_finish(w, ok)
    \/ \E w \in Workers, r \in RequestIds : reject_begin(w, r)
    \/ \E w \in Workers, ok \in BOOLEAN : reject_finish(w, ok)

ConcSpec == Init /\ [][NextConc]_vars

\* Every route of the blueprint, one call at a time.
NextAdmin ==
    \/ Next
    \/ \E fresh \in [Symbols -> Quotes \cup {"none"}], ok \in BOOLEAN :
          update_stocks(fresh, ok)
    \/ \E u \in UserIds : get_user_watchlists(u)
    \/ \E wl \in WatchlistIds, sym \in Symbols \cup {"aapl", ""},
          d \in Quotes \cup {"none"} : add_stock_to_watchlist(wl, sym, d)
    \/ \E wl \in WatchlistIds, sym \in Symbols \cup {"aapl", ""} :
          remove_stock_from_watchlist(wl, sym)
    \/ \E n \in BOOLEAN, res \in MockResults, ok \in BOOLEAN : create_screening(n, res, ok)
    \/ \E id \in ScreeningIds, res \in MockResults, ok \in BOOLEAN :
          update_screening(id, res, ok)
    \/ \E id \in ScreeningIds, ok \in BOOLEAN : delete_screening(id, ok)
    \/ \E name \in ReadOnlyPages : read_only_page(name)

AdminSpec == Init /\ [][NextAdmin]_vars

\* ==================================================================== claims
Terminal == {"approved", "rejected"}
Owner(r) == requests[r].user_id

\* C1: every request's status starts at pending and changes at most once, from
\* pending to approved or to rejected; once it is approved or rejected no later
\* approve or reject call (calls made one after the other) changes it.
C1_StatusChangesOnce ==
    /\ \A r \in ReqIds : requests[r].status = "pending"
    /\ [][\A r \in ReqIds :
            requests'[r].status # requests[r].status
            => /\ requests[r].status = "pending"
               /\ requests'[r].status \in Terminal]_vars

\* A processed request was called again and the call was refused.
C1_Witness ==
    /\ \E r \in ReqIds : requests[r].status = "approved"
    /\ \E r \in ReqIds : requests[r].status = "rejected"
    /\ resp = AlreadyProcessed

\* C2: when two approve/reject calls on the same pending request interleave,
\* the read-check-write of each is atomic relative to the other: a call whose
\* write comes after the other call's transition reports InvalidState and
\* changes neither the status nor the tier.
C2_AtomicTransition ==
    [][\A w \in Workers :
         /\ approve_finish(w, TRUE) \/ reject_finish(w, TRUE)
         /\ requests[pc[w].id].status # "pending"
         => /\ resp' = AlreadyProcessed
            /\ UNCHANGED <<requests, userTier>>]_vars

\* C3: an approve or reject call on a request that is no longer pending returns
\* 400 'Request already processed' and leaves the request's status and every
\* user's tier unchanged.
C3_ProcessedRequestRefused ==
    [][\A r \in ReqIds, ok \in BOOLEAN :
         /\ admin_required
         /\ requests[r].status \in Terminal
         /\ approve_subscription_request(r, ok) \/ reject_subscription_request(r, ok)
         => /\ resp' = Json(400, "Request already processed")
            /\ requests' = requests
            /\ userTier' = userTier]_vars

\* The scenario of the specification: r1 approved, its user on the requested
\* tier, and a second call answered 400.
C3_Witness ==
    /\ resp = Json(400, "Request already processed")
    /\ \E r \in ReqIds : /\ requests[r].status = "approved"
                         /\ userTier[Owner(r)] = requests[r].requested_tier

C5_RejectRestoresCurrentTier ==
    [][\A r \in ReqIds :
         /\ admin_required
         /\ requests[r].status = "pending"
         /\ User_get(Owner(r)) # {}
         /\ reject_subscription_request(r, TRUE)
         => /\ requests'[r].status = "rejected"
            /\ userTier' = userTier
            /\ userTier'[Owner(r)] = requests[r].current_tier]_vars

\* C5 as amended: reject sets the status to rejected and leaves every user's
\* tier as it was immediately before the call.
C5_RejectLeavesTier ==
    [][\A r \in ReqIds :
         /\ admin_required
         /\ requests[r].status = "pending"
         /\ reject_subscription_request(r, TRUE)
         => /\ requests'[r].status = "rejected"
            /\ userTier' = userTier]_vars

\* A rejection that left its user on a tier other than the request's current_tier.
C5_Witness ==
    /\ resp = Json(200, "Rejected")
    /\ \E r \in ReqIds : /\ requests[r].status = "rejected"
                         /\ userTier[Owner(r)] \in ValidTiers
                         /\ userTier[Owner(r)] # requests[r].current_tier

\* C6: approve or reject with an id for which no request exists returns 404
\* 'Request not found' and changes no request, user, watchlist or screening.
C6_UnknownRequestNotFound ==
    [][\A r \in RequestIds \ DOMAIN requests, ok \in BOOLEAN :
         /\ admin_required
         /\ approve_subscription_request(r, ok) \/ reject_subscription_request(r, ok)
         => /\ resp' = Json(404, "Request not found")
            /\ UNCHANGED store]_vars

C6_Witness ==
    /\ resp = Json(404, "Request not found")
    /\ \E r \in ReqIds : requests[r].status = "pending"

\* C7: when the store fails inside request.approve() or request.reject(), the
\* call is answered with the StoreFailure response (500 carrying the error's
\* message, as delete_user answers it) and the store is left as it was.
C7_StoreFailureSurfaced ==
    [][\A r \in ReqIds :
         /\ admin_required
         /\ requests[r].status = "pending"
         /\ approve_subscription_request(r, FALSE) \/ reject_subscription_request(r, FALSE)
         => /\ resp' = Json(500, "str(e)")
            /\ UNCHANGED store]_vars

\* C8: approve or reject on a pending request whose referenced user is absent
\* is answered 404, not with an unhandled failure.
C8_AbsentUserNotFound ==
    [][\A r \in ReqIds :
         /\ admin_required
         /\ requests[r].status = "pending"
         /\ User_get(Owner(r)) = {}
         /\ approve_subscription_request(r, TRUE) \/ reject_subscription_request(r, TRUE)
         => /\ resp'.code = 404
            /\ resp' # Unhandled]_vars

\* C9: the dashboard's listing holds exactly the pending requests, one entry
\* each, every entry's status pending; an entry whose user is absent carries
\* 'Unknown' as email and name, and the dashboard still answers 200.
C9_PendingListing ==
    [][admin_required /\ dashboard
       => /\ resp'.code = 200 /\ resp'.body = "dashboard"
          /\ \A r \in ReqIds :
               Cardinality({i \in DOMAIN resp'.data : resp'.data[i].id = r})
                 = IF requests[r].status = "pending" THEN 1 ELSE 0
          /\ \A i \in DOMAIN resp'.data :
               LET e == resp'.data[i] IN
               /\ e.id \in ReqIds
               /\ e.status = "pending"
               /\ e.current_tier = requests[e.id].current_tier
               /\ e.requested_tier = requests[e.id].requested_tier
               /\ IF userTier[Owner(e.id)] = "absent"
                  THEN e.user_email = "Unknown" /\ e.user_name = "Unknown"
                  ELSE e.user_email = email(Owner(e.id))
                       /\ e.user_name = email(Owner(e.id))]_vars

\* A listing with an 'Unknown' entry (its user was deleted) beside an entry
\* whose user was resolved.
C9_Witness ==
    /\ resp.body = "dashboard"
    /\ \E i \in DOMAIN resp.data : resp.data[i].user_email = "Unknown"
    /\ \E i \in DOMAIN resp.data : resp.data[i].user_email # "Unknown"

\* C10: every operation other than login, called on a session that is not
\* authenticated or not an admin's, redirects to the login page and changes no
\* user, request, watchlist or screening (nor the session).
C10_NotAdminSession ==
    ~ \E u \in session : userTier[u] # "absent" /\ u = 0
C10_Gated ==
    [][C10_NotAdminSession
       => \/ \E u \in UserIds, p \in Passwords : admin_login(u, p)
          \/ /\ resp' = Json(302, "admin.admin_login")
             /\ UNCHANGED <<store, session>>]_vars

\* A signed-in user who is no admin was sent to the login page.
C10_Witness ==
    /\ session = {1}
    /\ userTier[1] # "absent"
    /\ resp = Json(302, "admin.admin_login")

\* C11: after any sequence of the tier-assigning admin operations
\* (update_user_subscription, add_user_subscription, remove_user_subscription,
\* approve, reject) with arbitrary payloads, the subscription tier of every
\* user that exists is one of free, medium, pro.
C11_TierAlwaysValid ==
    \A u \in Users : userTier[u] # "absent" => userTier[u] \in ValidTiers
====
